---- MODULE Spec2Model ----
(***************************************************************************)
(* kismet-merge: merging the device records of several Kismet capture      *)
(* databases into one (src/kismet-merge.py).                               *)
(*                                                                         *)
(* Python dicts are functions whose DOMAIN is the set of keys present.     *)
(* Dicts are reference objects: merge_device_json writes into `existing`   *)
(* and may store a reference to a nested block of `new`, so the model      *)
(* keeps the objects in a heap (address -> dict) and a device dict holds   *)
(* the ADDRESS of its signal and location blocks.                          *)
(* A JSON value that may be null is an option set: {} is None, {v} is v.   *)
(***************************************************************************)
EXTENDS Integers, Sequences, FiniteSets, Bags

VARIABLES
    heap,            \* MergeSpec/AssocSpec: the caller's objects, address -> dict
    given,           \* the heap as the caller built it, before any call
    calls,           \* the merge_device_json calls made so far, <<existing, new>> each
    pc,              \* merge_kismet_files: position in the function
    input_files,     \* the sources the for loop has taken so far
    device_rows,     \* the rows fetched so far from the devices tables (a bag)
    merged_devices,  \* the dict mac -> device document, in insertion order
    other_data,      \* table name -> rows collected from the other tables
    files_processed, \* sources read to the end
    total_raw,       \* device rows merged or inserted
    warnings,        \* messages written to stderr
    output           \* the destination file

vars == <<heap, given, calls, pc, input_files, device_rows, merged_devices,
          other_data, files_processed, total_raw, warnings, output>>

mergeVars == <<heap, given, calls>>
runVars == <<pc, input_files, device_rows, merged_devices, other_data,
             files_processed, total_raw, warnings, output>>

---------------------------------------------------------------------------
(* Bounds *)

MaxTime == 2      \* timestamps are 0..MaxTime
MaxSignal == 2    \* signal strengths are -MaxSignal..-1
MaxCalls == 2     \* merge_device_json calls in one behaviour of AssocSpec
MaxFiles == 2     \* sources of one run
MaxRows == 3      \* rows read in one run, over all sources and tables

---------------------------------------------------------------------------
(* Keys of the device document, as kismet names them *)

MacAddr == "kismet.device.base.macaddr"
PacketsTotal == "kismet.device.base.packets.total"
PacketsData == "kismet.device.base.packets.data"
DataSize == "kismet.device.base.datasize"
FirstTime == "kismet.device.base.first_time"
LastTime == "kismet.device.base.last_time"
Signal == "kismet.device.base.signal"
Location == "kismet.device.base.location"
MaxSignalKey == "kismet.common.signal.max_signal"
MinSignalKey == "kismet.common.signal.min_signal"
LastSignalKey == "kismet.common.signal.last_signal"
AvgLoc == "kismet.common.location.avg_loc"

Counters == {PacketsTotal, PacketsData, DataSize}
Blocks == {Signal, Location}

---------------------------------------------------------------------------
(* Python dict and value primitives *)

EmptyDict == [k \in {} |-> 0]
None == {}

\* d.get(k, default)
Get(d, k, default) == IF k \in DOMAIN d THEN d[k] ELSE default

\* d.get(k) of a block whose values are option sets: None when absent or null
GetOpt(d, k) == IF k \in DOMAIN d THEN d[k] ELSE None

\* d[k] = v
Put(d, k, v) == [x \in (DOMAIN d) \cup {k} |-> IF x = k THEN v ELSE d[x]]

\* the number inside a non-None option
The(o) == CHOOSE v \in o : TRUE

\* bool(d) of a dict: non-empty
Truthy(d) == DOMAIN d # {}

Min(a, b) == IF a <= b THEN a ELSE b
Max(a, b) == IF a >= b THEN a ELSE b
Least(S) == CHOOSE x \in S : \A y \in S : x <= y
Greatest(S) == CHOOSE x \in S : \A y \in S : x >= y

\* a JSON string where a number is expected.  It stands apart from every
\* number the documents hold (signals are negative); no arithmetic and no
\* order is ever taken of it
NotANumber == MaxSignal + 1
IsNumber(v) == v # NotANumber

\* a < b or a > b raises TypeError: one side is a str, the other a number
Unordered(a, b) == IsNumber(a) # IsNumber(b)

\* obj[k] = v, on the object at address a
Store(h, a, k, v) == [h EXCEPT ![a] = Put(h[a], k, v)]

---------------------------------------------------------------------------
(* merge_device_json(existing, new): existing and new are addresses in h;   *)
(* the result is the heap when the function returns (it returns existing). *)

\* a merge that takes the union of two counts of the same packets
SumCounterAsUnion(h, existing, new, key) ==
    Store(h, existing, key, Max(Get(h[existing], key, 0), Get(h[new], key, 0)))

\* lines 28-40: sum packet counts
SumCounter(h, existing, new, key) ==
    Store(h, existing, key, Get(h[existing], key, 0) + Get(h[new], key, 0))

\* a merge that takes the plain minimum, a missing first_time being 0
MergeFirstTimePlainMin(h, existing, new) ==
    Store(h, existing, FirstTime,
          Min(Get(h[existing], FirstTime, 0), Get(h[new], FirstTime, 0)))

\* lines 42-50: earliest first_time
MergeFirstTime(h, existing, new) ==
    IF Get(h[new], FirstTime, 0) > 0
    THEN IF Get(h[existing], FirstTime, 0) = 0
         THEN Store(h, existing, FirstTime, h[new][FirstTime])
         ELSE Store(h, existing, FirstTime,
                    Min(h[existing][FirstTime], h[new][FirstTime]))
    ELSE h

\* a merge in which the row read last sets last_time
MergeLastTimeOverwrites(h, existing, new) ==
    Store(h, existing, LastTime, Get(h[new], LastTime, 0))

\* lines 52-56: latest last_time
MergeLastTime(h, existing, new) ==
    Store(h, existing, LastTime,
          Max(Get(h[existing], LastTime, 0), Get(h[new], LastTime, 0)))

\* existing.get(block, {}) is truthy: the key is there and its dict is non-empty
HasBlock(h, a, block) == block \in DOMAIN h[a] /\ Truthy(h[h[a][block]])

\* line 70: new_max > existing_max raises TypeError
MaxSignalRaises(h, es, ns) ==
    LET new_max == GetOpt(h[ns], MaxSignalKey)
        existing_max == GetOpt(h[es], MaxSignalKey)
    IN /\ new_max # None
       /\ existing_max # None
       /\ Unordered(The(new_max), The(existing_max))

\* lines 67-71: best (least negative) max signal; two strings are compared
\* as strings, and the one string of the model is not greater than itself
MergeMaxSignal(h, es, ns) ==
    LET new_max == GetOpt(h[ns], MaxSignalKey)
        existing_max == GetOpt(h[es], MaxSignalKey)
    IN IF new_max # None
          /\ (existing_max = None
              \/ (/\ IsNumber(The(new_max))
                  /\ IsNumber(The(existing_max))
                  /\ The(new_max) > The(existing_max)))
       THEN Store(h, es, MaxSignalKey, new_max)
       ELSE h

\* line 77: new_min < existing_min raises TypeError
MinSignalRaises(h, es, ns) ==
    LET new_min == GetOpt(h[ns], MinSignalKey)
        existing_min == GetOpt(h[es], MinSignalKey)
    IN /\ new_min # None
       /\ existing_min # None
       /\ Unordered(The(new_min), The(existing_min))

\* the min rule with the comparison of the max rule
MergeMinSignalKeepsBest(h, es, ns) ==
    LET new_min == GetOpt(h[ns], MinSignalKey)
        existing_min == GetOpt(h[es], MinSignalKey)
    IN IF new_min # None
          /\ (existing_min = None
              \/ (/\ IsNumber(The(new_min))
                  /\ IsNumber(The(existing_min))
                  /\ The(new_min) > The(existing_min)))
       THEN Store(h, es, MinSignalKey, new_min)
       ELSE h

\* lines 73-78: worst (most negative) min signal
MergeMinSignal(h, es, ns) ==
    LET new_min == GetOpt(h[ns], MinSignalKey)
        existing_min == GetOpt(h[es], MinSignalKey)
    IN IF new_min # None
          /\ (existing_min = None
              \/ (/\ IsNumber(The(new_min))
                  /\ IsNumber(The(existing_min))
                  /\ The(new_min) < The(existing_min)))
       THEN Store(h, es, MinSignalKey, new_min)
       ELSE h

\* the comparison with ties going to existing
NewIsStrictlyMoreRecent(h, existing, new) ==
    Get(h[new], LastTime, 0) > Get(h[existing], LastTime, 0)

\* line 81: the comparison that decides whose last_signal is kept; it reads
\* existing's last_time as it is at that point of the function
NewIsMostRecent(h, existing, new) ==
    Get(h[new], LastTime, 0) >= Get(h[existing], LastTime, 0)

\* lines 80-83: use most recent last_signal
MergeLastSignal(h, existing, new, es, ns) ==
    IF NewIsMostRecent(h, existing, new)
    THEN IF GetOpt(h[ns], LastSignalKey) # None
         THEN Store(h, es, LastSignalKey, h[ns][LastSignalKey])
         ELSE h
    ELSE h

\* lines 58-85 raise TypeError: both sides have a signal block, and the
\* comparison of line 70 or, after lines 67-71, that of line 77 raises
SignalRaises(h, existing, new) ==
    /\ HasBlock(h, new, Signal)
    /\ HasBlock(h, existing, Signal)
    /\ LET es == h[existing][Signal]
           ns == h[new][Signal]
       IN \/ MaxSignalRaises(h, es, ns)
          \/ MinSignalRaises(MergeMaxSignal(h, es, ns), es, ns)

\* lines 58-85: merge signal data; when a comparison raises, the heap is
\* left as the statements before it made it
MergeSignal(h, existing, new) ==
    IF HasBlock(h, new, Signal)
    THEN IF ~HasBlock(h, existing, Signal)
         THEN \* line 64: existing now refers to new's block
              Store(h, existing, Signal, h[new][Signal])
         ELSE LET es == h[existing][Signal]
                  ns == h[new][Signal]
                  g1 == MergeMaxSignal(h, es, ns)
                  g2 == MergeMinSignal(g1, es, ns)
                  g3 == MergeLastSignal(g2, existing, new, es, ns)
              IN IF MaxSignalRaises(h, es, ns) THEN h
                 ELSE IF MinSignalRaises(g1, es, ns) THEN g1
                 ELSE Store(g3, existing, Signal, es)
    ELSE h

\* new_loc.get(avg_loc) is truthy
HasFix(h, a) ==
    /\ HasBlock(h, a, Location)
    /\ GetOpt(h[h[a][Location]], AvgLoc) # None

\* lines 87-93: merge location data
MergeLocation(h, existing, new) ==
    IF HasFix(h, new) /\ ~HasFix(h, existing)
    THEN Store(h, existing, Location, h[new][Location])
    ELSE h

\* lines 28-56: the counters and the two times (numbers in every document
\* of the model)
MergeCountsAndTimes(h, existing, new) ==
    LET h1 == SumCounter(h, existing, new, PacketsTotal)
        h2 == SumCounter(h1, existing, new, PacketsData)
        h3 == SumCounter(h2, existing, new, DataSize)
        h4 == MergeFirstTime(h3, existing, new)
    IN MergeLastTime(h4, existing, new)

\* merge_device_json(existing, new) raises TypeError instead of returning
Raises(h, existing, new) ==
    SignalRaises(MergeCountsAndTimes(h, existing, new), existing, new)

\* the heap when merge_device_json(existing, new) returns, or when it raises
merge_device_json(h, existing, new) ==
    LET h5 == MergeCountsAndTimes(h, existing, new)
        h6 == MergeSignal(h5, existing, new)
    IN IF SignalRaises(h5, existing, new)
       THEN h6
       ELSE MergeLocation(h6, existing, new)

---------------------------------------------------------------------------
(* Objects and values.  A device VALUE is the nested document json.loads   *)
(* returns; HeapOf allocates a sequence of values as separate objects:     *)
(* device i at address i, its signal block at n+i, its location at 2n+i.   *)

BlockAddr(n, i, block) == IF block = Signal THEN n + i ELSE 2 * n + i

HeapOf(ds) ==
    LET n == Len(ds)
    IN [a \in 1..(3 * n) |->
          IF a <= n
          THEN [k \in DOMAIN ds[a] |->
                  IF k \in Blocks THEN BlockAddr(n, a, k) ELSE ds[a][k]]
          ELSE IF a <= 2 * n
               THEN Get(ds[a - n], Signal, EmptyDict)
               ELSE Get(ds[a - 2 * n], Location, EmptyDict)]

\* the nested document of the object at address a (what json.dumps writes)
Value(h, a) ==
    [k \in DOMAIN h[a] |-> IF k \in Blocks THEN h[h[a][k]] ELSE h[a][k]]

\* merge_device_json on two freshly parsed documents, as a value
MergeValue(existing, new) ==
    Value(merge_device_json(HeapOf(<<existing, new>>), 1, 2), 1)

\* merge_device_json on two freshly parsed documents raises TypeError
MergeRaises(existing, new) == Raises(HeapOf(<<existing, new>>), 1, 2)

---------------------------------------------------------------------------
(* Input documents *)

Opt(S) == {None} \cup {{v} : v \in S}
Signals == {0 - s : s \in 1..MaxSignal}

\* a dict with key k when the option o is not None
Field(k, o) == IF o = None THEN EmptyDict ELSE [x \in {k} |-> The(o)]
Join(d, e) == [x \in (DOMAIN d) \cup (DOMAIN e) |->
                 IF x \in DOMAIN d THEN d[x] ELSE e[x]]

\* what one capture session reports of a device: nothing but the address
\* (s = 0), or its counters and the times it was first and last seen
Session(s) ==
    IF s = 0 THEN EmptyDict
    ELSE [k \in Counters \cup {FirstTime, LastTime} |->
            IF k = PacketsTotal THEN s
            ELSE IF k = PacketsData THEN s - 1
            ELSE IF k = DataSize THEN 2 * s
            ELSE IF k = FirstTime THEN s - 1
            ELSE MaxTime + 1 - s]
Sessions == 0..(MaxTime + 1)

\* signal blocks: the empty dict, or the three values, each a number or null
SignalBlocks ==
    {EmptyDict} \cup
    { [k \in {MaxSignalKey, MinSignalKey, LastSignalKey} |->
          IF k = MaxSignalKey THEN mx
          ELSE IF k = MinSignalKey THEN mn ELSE ls] :
        mx \in Opt(Signals), mn \in Opt(Signals), ls \in Opt(Signals) }

\* signal blocks that hold a last_signal only
LastSignalBlocks == { [k \in {LastSignalKey} |-> {v}] : v \in Signals }

\* location blocks: the empty dict, or an averaged fix (a geopoint or null)
Fixes == { <<g, g>> : g \in 1..2 }
LocationBlocks ==
    {EmptyDict} \cup { [k \in {AvgLoc} |-> g] : g \in Opt(Fixes) }

\* a device document; mac, sig and loc are options (None: the key is absent)
Device(mac, s, sig, loc) ==
    Join(Field(MacAddr, mac),
         Join(Session(s), Join(Field(Signal, sig), Field(Location, loc))))

\* the documents merge_device_json is applied to in MergeSpec
MergeDevices ==
    { Device({"m1"}, s, sig, None) : s \in Sessions, sig \in Opt(SignalBlocks) }
    \cup
    { Device({"m1"}, s, None, {loc}) : s \in Sessions, loc \in LocationBlocks }

\* the documents merge_device_json is applied to in AssocSpec
AssocDevices ==
    { Device({"m1"}, s, sig, None) :
        s \in Sessions, sig \in Opt(LastSignalBlocks) }

---------------------------------------------------------------------------
(* merge_device_json called by a caller that holds the objects *)

\* the caller runs merge_device_json(existing, new)
Call(existing, new) ==
    /\ heap' = merge_device_json(heap, existing, new)
    /\ UNCHANGED given
    /\ calls' = Append(calls, <<existing, new>>)
    /\ UNCHANGED runVars

\* the state of a merge_kismet_files run that has not started
RunIdle ==
    /\ pc = "idle"
    /\ input_files = <<>>
    /\ device_rows = EmptyBag
    /\ merged_devices = <<>>
    /\ other_data = EmptyDict
    /\ files_processed = 0
    /\ total_raw = 0
    /\ warnings = 0
    /\ output = EmptyDict

\* MergeSpec: one call on two documents
MergeInit ==
    /\ \E e \in MergeDevices, n \in MergeDevices : heap = HeapOf(<<e, n>>)
    /\ given = heap
    /\ calls = <<>>
    /\ RunIdle

MergePair == calls = <<>> /\ Call(1, 2)

MergeNext == MergePair

MergeSpec == MergeInit /\ [][MergeNext]_vars

\* AssocSpec: up to MaxCalls calls among three documents A, B, C (1, 2, 3)
AssocInit ==
    /\ \E a \in AssocDevices, b \in AssocDevices, c \in AssocDevices :
          heap = HeapOf(<<a, b, c>>)
    /\ given = heap
    /\ calls = <<>>
    /\ RunIdle

MergeAny ==
    /\ Len(calls) < MaxCalls
    /\ \E existing \in 1..3, new \in 1..3 :
          existing # new /\ Call(existing, new)

AssocNext == MergeAny

AssocSpec == AssocInit /\ [][AssocNext]_vars
---------------------------------------------------------------------------
(* merge_kismet_files(input_files, output_file) *)

\* an ordered dict as the sequence of its items
Macs(md) == { md[i].mac : i \in DOMAIN md }
Lookup(md, mac) == md[CHOOSE i \in DOMAIN md : md[i].mac = mac].device
\* a store that adds an item at every assignment, like a list of rows
AssignAppends(md, mac, device) ==
    Append(md, [mac |-> mac, device |-> device])

\* merged_devices[mac] = device
Assign(md, mac, device) ==
    IF mac \in Macs(md)
    THEN [i \in DOMAIN md |->
            IF md[i].mac = mac THEN [mac |-> mac, device |-> device] ELSE md[i]]
    ELSE Append(md, [mac |-> mac, device |-> device])

\* line 98-100
get_device_key(device_json) == Get(device_json, MacAddr, "")

\* a row of a devices table, by what json.loads(row[0]) does with its blob:
\* it returns a document, or raises the exception named
ParsedRow(device) == [parsed |-> TRUE, device |-> device, raises |-> ""]
FailedRow(exception) ==
    [parsed |-> FALSE, device |-> EmptyDict, raises |-> exception]
\* text that is not JSON
MalformedRow == FailedRow("JSONDecodeError")
\* bytes that are not text: json.loads decodes a blob before it parses it
UndecodableRow == FailedRow("UnicodeDecodeError")

\* line 155: the exceptions the loop over the rows catches
CaughtInLoop == {"JSONDecodeError", "KeyError"}

\* lines 140-158: one iteration of the loop over the rows of a devices table
ProcessRow(md, row) ==
    IF ~row.parsed
    THEN md                                    \* json.loads raised
    ELSE LET device_json == row.device
             mac == get_device_key(device_json)
         IN IF mac = ""
            THEN md                            \* if not mac: continue
            ELSE IF mac \in Macs(md)
                 THEN Assign(md, mac, MergeValue(Lookup(md, mac), device_json))
                 ELSE Assign(md, mac, device_json)

\* lines 152-153: the row was counted
Counted(row) == row.parsed /\ get_device_key(row.device) # ""

\* lines 140-158, 179: the iteration raises an exception that neither the
\* except of the loop nor the except sqlite3.Error around the source catches
Uncaught(md, row) ==
    \/ ~row.parsed /\ row.raises \notin CaughtInLoop
    \/ /\ Counted(row)
       /\ get_device_key(row.device) \in Macs(md)
       /\ MergeRaises(Lookup(md, get_device_key(row.device)), row.device)

\* the rows of the devices tables of the sources
FullSignal == [k \in {MaxSignalKey, MinSignalKey, LastSignalKey} |-> {0 - 1}]
FixedLocation == [k \in {AvgLoc} |-> {<<1, 2>>}]
\* a signal block whose max_signal is a string
BadSignal ==
    [k \in {MaxSignalKey, MinSignalKey, LastSignalKey} |->
        IF k = MaxSignalKey THEN {NotANumber} ELSE {0 - 1}]
RunRows ==
    { ParsedRow(Device({"m1"}, s, None, None)) : s \in Sessions }
    \cup { ParsedRow(Device({"m2"}, 1, {FullSignal}, {FixedLocation})),
           ParsedRow(Device({"m2"}, 1, {BadSignal}, None)),
           ParsedRow(Device({""}, 1, None, None)),
           ParsedRow(Device(None, 1, None, None)),
           MalformedRow,
           UndecodableRow }

\* rows of a packets table, as dict(zip(columns, row))
Packet(ts_usec, lon) ==
    [ts_sec |-> 1, ts_usec |-> ts_usec, sourcemac |-> "m1", destmac |-> "m2",
     lat |-> 0, lon |-> lon]
PacketRows == { Packet(0, 0), Packet(1, 0), Packet(0, 1) }
PacketKey(p) == <<p.ts_sec, p.ts_usec, p.sourcemac, p.destmac, p.lat, p.lon>>

SeqsUpTo(S, n) == UNION { [1..k -> S] : k \in 0..n }

\* the KISMET row every capture file holds, and the one line 271-274 writes
SourceMetadata ==
    [kismet_version |-> "2023.07.R1", build_uuid |-> "capture",
     build_compile |-> "built", db_version |-> 8]
MergedMetadata ==
    [kismet_version |-> "merged", build_uuid |-> "wifi-sort-merge",
     build_compile |-> "now", db_version |-> 6]

\* rows read so far, over all tables
RowsRead == BagCardinality(device_rows) + Len(other_data.packets)

\* lines 229-260: the devices row written for one item of merged_devices
OutputRow(item) ==
    LET device_json == item.device
        signal == Get(device_json, Signal, EmptyDict)
        location == Get(device_json, Location, EmptyDict)
        geopoint == IF GetOpt(location, AvgLoc) = None THEN <<0, 0>>
                    ELSE The(location[AvgLoc])
    IN [first_time |-> Get(device_json, FirstTime, 0),
        last_time |-> Get(device_json, LastTime, 0),
        devmac |-> Get(device_json, MacAddr, ""),
        strongest_signal |-> Get(signal, MaxSignalKey, {0}),
        avg_lat |-> geopoint[2],
        avg_lon |-> geopoint[1],
        bytes_data |-> Get(device_json, DataSize, 0),
        device |-> device_json]

\* a writer that carries over the KISMET row of the first source that has one
FirstSourceMetadataRows ==
    LET holders == { i \in DOMAIN input_files : input_files[i].KISMET # <<>> }
    IN IF holders = {} THEN <<>> ELSE input_files[Least(holders)].KISMET

\* lines 262-274: the rows of the KISMET table of the output
MetadataRows == <<MergedMetadata>>

\* the destination path before the run: no file, or a file of an earlier run
NoFile == [exists |-> FALSE, devices |-> <<>>, KISMET |-> <<>>, old |-> FALSE]
OldFile == [exists |-> TRUE, devices |-> <<>>, KISMET |-> <<>>, old |-> TRUE]

Init ==
    /\ heap = <<>>
    /\ given = <<>>
    /\ calls = <<>>
    /\ pc = "next_source"
    /\ input_files = <<>>
    /\ device_rows = EmptyBag
    /\ merged_devices = <<>>
    /\ other_data = [snapshots |-> <<>>, packets |-> <<>>, data |-> <<>>,
                     alerts |-> <<>>]
    /\ files_processed = 0
    /\ total_raw = 0
    /\ warnings = 0
    /\ output \in {NoFile, OldFile}

\* lines 121-134: the next source opens and its table list is read
OpenSource ==
    /\ pc = "next_source"
    /\ Len(input_files) < MaxFiles
    /\ \E has_devices \in BOOLEAN :
          pc' = IF has_devices THEN "devices" ELSE "other_tables"
    /\ input_files' = Append(input_files,
                             [readable |-> TRUE, KISMET |-> <<SourceMetadata>>])
    /\ UNCHANGED <<device_rows, merged_devices, other_data, files_processed,
                   total_raw, warnings, output, mergeVars>>

\* a run that gives up at the first source it cannot read
SourceUnreadableAborts ==
    /\ pc = "next_source"
    /\ Len(input_files) < MaxFiles
    /\ input_files' = Append(input_files, [readable |-> FALSE, KISMET |-> <<>>])
    /\ warnings' = warnings + 1
    /\ pc' = "failed"
    /\ UNCHANGED <<device_rows, merged_devices, other_data, files_processed,
                   total_raw, output, mergeVars>>

\* lines 126-136 raise sqlite3.Error (not a database, unreadable, no device
\* column), before any row of the source is processed; lines 179-181
SourceUnreadable ==
    /\ pc = "next_source"
    /\ Len(input_files) < MaxFiles
    /\ input_files' = Append(input_files, [readable |-> FALSE, KISMET |-> <<>>])
    /\ warnings' = warnings + 1
    /\ UNCHANGED <<pc, device_rows, merged_devices, other_data, files_processed,
                   total_raw, output, mergeVars>>

\* lines 139-158: one row of the devices table
DeviceRow ==
    /\ pc = "devices"
    /\ RowsRead < MaxRows
    /\ \E row \in RunRows :
          /\ device_rows' = device_rows (+) SetToBag({row})
          /\ merged_devices' = ProcessRow(merged_devices, row)
          /\ IF Uncaught(merged_devices, row)
             THEN \* the exception leaves merge_kismet_files and ends the run
                  pc' = "crashed" /\ total_raw' = total_raw
             ELSE /\ pc' = pc
                  /\ total_raw' = IF Counted(row) THEN total_raw + 1
                                  ELSE total_raw
    /\ UNCHANGED <<input_files, other_data, files_processed, warnings,
                   output, mergeVars>>

\* line 139: the rows of the devices table are exhausted
EndDevices ==
    /\ pc = "devices"
    /\ pc' = "other_tables"
    /\ UNCHANGED <<input_files, device_rows, merged_devices, other_data,
                   files_processed, total_raw, warnings, output, mergeVars>>

\* lines 163-177: the other tables are collected (a table that is absent or
\* whose read fails adds nothing), the source is closed
CollectOther ==
    /\ pc = "other_tables"
    /\ \E rows \in SeqsUpTo(PacketRows, MaxRows - RowsRead) :
          other_data' = [other_data EXCEPT !.packets = @ \o rows]
    /\ files_processed' = files_processed + 1
    /\ pc' = "next_source"
    /\ UNCHANGED <<input_files, device_rows, merged_devices, total_raw,
                   warnings, output, mergeVars>>

\* a run that clears the destination path before it looks for devices
NoDataRemovesOld ==
    /\ pc = "next_source"
    /\ merged_devices = <<>>
    /\ warnings' = warnings + 1
    /\ pc' = "failed"
    /\ output' = NoFile
    /\ UNCHANGED <<input_files, device_rows, merged_devices, other_data,
                   files_processed, total_raw, mergeVars>>

\* lines 183-185: no devices found
NoData ==
    /\ pc = "next_source"
    /\ merged_devices = <<>>
    /\ warnings' = warnings + 1
    /\ pc' = "failed"
    /\ UNCHANGED <<input_files, device_rows, merged_devices, other_data,
                   files_processed, total_raw, output, mergeVars>>

\* lines 190-283: the output database is created and filled
WriteOutput ==
    /\ pc = "next_source"
    /\ merged_devices # <<>>
    /\ output' = [exists |-> TRUE,
                  devices |-> [i \in DOMAIN merged_devices |->
                                 OutputRow(merged_devices[i])],
                  KISMET |-> MetadataRows,
                  old |-> FALSE]
    /\ pc' = "done"
    /\ UNCHANGED <<input_files, device_rows, merged_devices, other_data,
                   files_processed, total_raw, warnings, mergeVars>>

Next ==
    \/ OpenSource
    \/ SourceUnreadable
    \/ DeviceRow
    \/ EndDevices
    \/ CollectOther
    \/ NoData
    \/ WriteOutput

Spec == Init /\ [][Next]_vars

---------------------------------------------------------------------------
(* Reading a device value the way the code does *)

Number(v, key) == Get(v, key, 0)
SignalOf(v) == Get(v, Signal, EmptyDict)
SignalValue(v, key) == GetOpt(SignalOf(v), key)

\* the larger / smaller of two optional numbers, an absent one being ignored
OptMax(a, b) ==
    IF a = None THEN b ELSE IF b = None THEN a ELSE {Max(The(a), The(b))}
OptMin(a, b) ==
    IF a = None THEN b ELSE IF b = None THEN a ELSE {Min(The(a), The(b))}

\* the fields that the sum/min/max/most-recent rules govern
Governed(v) ==
    <<Number(v, PacketsTotal), Number(v, PacketsData), Number(v, DataSize),
      Number(v, FirstTime), Number(v, LastTime),
      SignalValue(v, MaxSignalKey), SignalValue(v, MinSignalKey),
      SignalValue(v, LastSignalKey)>>

\* the one call made is merge_device_json(1, 2), on two separate documents
Merged == calls = <<<<1, 2>>>>
Existing == Value(given, 1)
Incoming == Value(given, 2)
Result == Value(heap, 1)

\* the parsed rows read so far whose address is mac
DevicesOf(mac) ==
    { r \in BagToSet(device_rows) : r.parsed /\ get_device_key(r.device) = mac }

\* the sum of a counter over a set of the rows read, each as often as read
RECURSIVE SumOver(_, _)
SumOver(rows, key) ==
    IF rows = {} THEN 0
    ELSE LET r == CHOOSE x \in rows : TRUE
         IN CopiesIn(r, device_rows) * Number(r.device, key)
            + SumOver(rows \ {r}, key)

ValuesOf(mac, key) == { Number(r.device, key) : r \in DevicesOf(mac) }

\* this step read `row` from a devices table and merged it into the record
\* stored for its address
MergedRow(row) ==
    /\ device_rows' = device_rows (+) SetToBag({row})
    /\ Counted(row)
    /\ get_device_key(row.device) \in Macs(merged_devices)

\* this step read `row` from a devices table
ReadRow(row) == device_rows' = device_rows (+) SetToBag({row})

\* this step took a source that could not be read
SkippedSource ==
    /\ Len(input_files') = Len(input_files) + 1
    /\ ~input_files'[Len(input_files')].readable

---------------------------------------------------------------------------
(* C2: a merge leaves in each of packets.total, packets.data and datasize  *)
(* existing's value plus incoming's (absent counts as 0); so each counter   *)
(* stored for an address is the sum of that counter over every parsed row   *)
(* read with that address, and merging a copy of a record doubles them.    *)
C2_StoredIsSum ==
    \A i \in DOMAIN merged_devices : \A key \in Counters :
        Number(merged_devices[i].device, key)
            = SumOver(DevicesOf(merged_devices[i].mac), key)

C2_MergeAdds ==
    \A row \in RunRows : MergedRow(row) =>
        LET mac == get_device_key(row.device)
        IN \A key \in Counters :
              Number(Lookup(merged_devices', mac), key)
                  = Number(Lookup(merged_devices, mac), key)
                    + Number(row.device, key)

\* C2: every merge adds the counters, and every stored counter is the sum
\* over the rows read for its address
C2_CountersSum == [](C2_StoredIsSum) /\ [][C2_MergeAdds]_vars

\* a record was merged with a copy of itself and its counters doubled
C2_Witness ==
    /\ pc = "done"
    /\ device_rows = SetToBag({ParsedRow(Device({"m1"}, 2, None, None))})
                     (+) SetToBag({ParsedRow(Device({"m1"}, 2, None, None))})
    /\ Number(Lookup(merged_devices, "m1"), PacketsTotal) = 4
    /\ Number(Lookup(merged_devices, "m1"), PacketsData) = 2
    /\ Number(Lookup(merged_devices, "m1"), DataSize) = 8

(* C3: when incoming.first_time > 0 the merged first_time is incoming's if  *)
(* existing's is 0 or absent and the minimum of the two otherwise; when     *)
(* incoming's is 0 or absent existing's is left as it was.  So the stored   *)
(* first_time is the least non-zero first_time read for the address (0 or   *)
(* absent when there is none).                                             *)
C3_StoredIsLeastNonZero ==
    \A i \in DOMAIN merged_devices :
        LET seen == ValuesOf(merged_devices[i].mac, FirstTime) \ {0}
        IN Number(merged_devices[i].device, FirstTime)
              = IF seen = {} THEN 0 ELSE Least(seen)

C3_MergeRule ==
    \A row \in RunRows : MergedRow(row) =>
        LET mac == get_device_key(row.device)
            existing == Lookup(merged_devices, mac)
            merged == Lookup(merged_devices', mac)
        IN IF Number(row.device, FirstTime) > 0
           THEN /\ FirstTime \in DOMAIN merged
                /\ merged[FirstTime] =
                     IF Number(existing, FirstTime) = 0
                     THEN row.device[FirstTime]
                     ELSE Min(existing[FirstTime], row.device[FirstTime])
           ELSE /\ (FirstTime \in DOMAIN merged) = (FirstTime \in DOMAIN existing)
                /\ Number(merged, FirstTime) = Number(existing, FirstTime)

\* C3: every merge follows the first-seen rule, and the stored first_time is
\* the least non-zero first_time read for its address
C3_FirstSeen == [](C3_StoredIsLeastNonZero) /\ [][C3_MergeRule]_vars

\* rows with first_time 0, 1 and 2 were read for one address: 1 is stored
C3_Witness ==
    /\ pc = "done"
    /\ ValuesOf("m1", FirstTime) = {0, 1, 2}
    /\ Number(Lookup(merged_devices, "m1"), FirstTime) = 1

(* C4: a merge leaves max(existing.last_time, incoming.last_time), absent   *)
(* as 0; the last_time stored for an address never decreases and is the    *)
(* greatest last_time read for that address.                               *)
C4_StoredIsGreatest ==
    \A i \in DOMAIN merged_devices :
        Number(merged_devices[i].device, LastTime)
            = Greatest(ValuesOf(merged_devices[i].mac, LastTime))

C4_MergeRule ==
    \A row \in RunRows : MergedRow(row) =>
        LET mac == get_device_key(row.device)
        IN Number(Lookup(merged_devices', mac), LastTime)
              = Max(Number(Lookup(merged_devices, mac), LastTime),
                    Number(row.device, LastTime))

C4_NeverDecreases ==
    \A i \in DOMAIN merged_devices :
        /\ merged_devices[i].mac \in Macs(merged_devices')
        /\ Number(Lookup(merged_devices', merged_devices[i].mac), LastTime)
              >= Number(merged_devices[i].device, LastTime)

\* C4: every merge leaves the max of the two last_time values, the stored
\* last_time never decreases and is the greatest last_time read
C4_LastSeen ==
    /\ [](C4_StoredIsGreatest)
    /\ [][C4_MergeRule /\ C4_NeverDecreases]_vars

\* rows with last_time 0, 1 and 2 were read for one address: 2 is stored
C4_Witness ==
    /\ pc = "done"
    /\ ValuesOf("m1", LastTime) = {0, 1, 2}
    /\ Number(Lookup(merged_devices, "m1"), LastTime) = 2

(* C7: every row read with an empty or absent address is in the output as   *)
(* a row of its own.                                                       *)
C7_OrphansPreserved ==
    pc = "done" =>
        Cardinality({ i \in DOMAIN output.devices :
                        output.devices[i].devmac = "" })
            = BagCardinality(
                [r \in DevicesOf("") |-> CopiesIn(r, device_rows)])

(* C8: packet rows with the same (ts_sec, ts_usec, source_mac, dest_mac,    *)
(* lat, lon) are retained as one row.                                      *)
C8_PacketDedup ==
    \A i, j \in DOMAIN other_data.packets :
        i # j => PacketKey(other_data.packets[i])
                    # PacketKey(other_data.packets[j])

(* C9 as stated: when every source holds a KISMET row, the output holds     *)
(* exactly one, equal to the first source's.                               *)
C9_FirstSourceMetadata ==
    /\ pc = "done"
    /\ \A i \in DOMAIN input_files : Len(input_files[i].KISMET) = 1
    => output.KISMET = input_files[1].KISMET

(* C9 amended: when every source holds a KISMET row, the output holds       *)
(* exactly one KISMET row, and it is the row the merge writes of itself     *)
(* (version "merged", build "wifi-sort-merge", db_version 6), not a row of  *)
(* a source.                                                               *)
C9_OneMergeMetadataRow ==
    /\ pc = "done"
    /\ \A i \in DOMAIN input_files : Len(input_files[i].KISMET) = 1
    => /\ Len(output.KISMET) = 1
       /\ output.KISMET[1] = MergedMetadata
       /\ \A i \in DOMAIN input_files :
             output.KISMET[1] # input_files[i].KISMET[1]

\* two sources, each with a KISMET row, were merged into an output
C9_Witness ==
    /\ pc = "done"
    /\ Len(input_files) = 2
    /\ \A i \in DOMAIN input_files : input_files[i].KISMET = <<SourceMetadata>>
    /\ output.exists

(* C10: a source that cannot be read costs one warning and nothing else:    *)
(* the accumulated devices and every other part of the run's state are as   *)
(* before it, and the loop is at its head, ready for the next source, so    *)
(* the run goes on as the run without that source does.                    *)
C10_SkipStep ==
    SkippedSource =>
        /\ warnings' = warnings + 1
        /\ merged_devices' = merged_devices
        /\ device_rows' = device_rows
        /\ other_data' = other_data
        /\ total_raw' = total_raw
        /\ files_processed' = files_processed
        /\ output' = output
        /\ pc = "next_source"
        /\ pc' = "next_source"

\* the run fails only for want of devices, never for an unreadable source
C10_OnlyNoDataFails ==
    pc = "failed" =>
        /\ merged_devices = <<>>
        /\ \A r \in BagToSet(device_rows) : ~Counted(r)

\* one message per unreadable source (and one for a run that found no device)
C10_OneWarningEach ==
    warnings = Cardinality({ i \in DOMAIN input_files :
                               ~input_files[i].readable })
               + (IF pc = "failed" THEN 1 ELSE 0)

\* the accumulated devices are those of the rows read from readable sources
C10_DevicesFromRowsRead ==
    Macs(merged_devices) =
        { get_device_key(r.device) : r \in { x \in BagToSet(device_rows) :
                                               Counted(x) } }

\* C10: an unreadable source is skipped with a warning, changes nothing
\* else, and the run goes on and does not fail because of it
C10_SourceSkipped ==
    /\ [](C10_OnlyNoDataFails /\ C10_OneWarningEach /\ C10_DevicesFromRowsRead)
    /\ [][C10_SkipStep]_vars

\* an unreadable source, then a readable one whose device is in the output
C10_Witness ==
    /\ pc = "done"
    /\ Len(input_files) = 2
    /\ ~input_files[1].readable
    /\ input_files[2].readable
    /\ warnings = 1
    /\ files_processed = 1
    /\ Len(output.devices) = 1

(* C11: a device row whose payload does not parse is dropped, that row     *)
(* only: the step that reads it leaves the accumulated devices and the     *)
(* count of merged rows as they were, and the loop stays in the devices    *)
(* table of the source, so the rows after it and the later sources are     *)
(* read and merged.                                                        *)
C11_RowDropped ==
    \A row \in RunRows : ReadRow(row) /\ ~row.parsed =>
        /\ merged_devices' = merged_devices
        /\ total_raw' = total_raw
        /\ other_data' = other_data
        /\ output' = output
        /\ pc' = "devices"

C11_MalformedRowDropped == [][C11_RowDropped]_vars

\* a signal value of the document is not a number
MalformedField(v) ==
    \E key \in DOMAIN SignalOf(v) :
        SignalOf(v)[key] # None /\ ~IsNumber(The(SignalOf(v)[key]))

\* the document without its signal values that are not numbers
WithoutMalformed(v) ==
    IF Signal \in DOMAIN v
    THEN LET keep == { key \in DOMAIN v[Signal] :
                         v[Signal][key] = None \/ IsNumber(The(v[Signal][key])) }
         IN Put(v, Signal, [key \in keep |-> v[Signal][key]])
    ELSE v

(* C12: a document with a value that is not a number where a number is     *)
(* expected is merged as if the value were absent: the step that reads it  *)
(* for an address already stored leaves the merge of the stored record     *)
(* with the document less that value, counts the row, and the loop stays   *)
(* in the devices table, so the rows and sources after it are read.        *)
C12_FieldSkipped ==
    \A row \in RunRows :
        /\ ReadRow(row)
        /\ Counted(row)
        /\ MalformedField(row.device)
        /\ get_device_key(row.device) \in Macs(merged_devices)
        /\ ~MalformedField(Lookup(merged_devices, get_device_key(row.device)))
        => LET mac == get_device_key(row.device)
           IN /\ Lookup(merged_devices', mac)
                    = MergeValue(Lookup(merged_devices, mac),
                                 WithoutMalformed(row.device))
              /\ total_raw' = total_raw + 1
              /\ pc' = "devices"

C12_MalformedFieldAbsent == [][C12_FieldSkipped]_vars

\* every source taken so far has been consumed: read to its end or skipped
SourcesConsumed ==
    /\ pc = "next_source"
    /\ Len(input_files)
          = files_processed
            + Cardinality({ i \in DOMAIN input_files :
                              ~input_files[i].readable })

\* a step changes the destination only when the sources are consumed and a
\* device was found, and that step is the one that writes the output; the
\* step into failure is taken with no device and leaves the destination
C13_DestinationStep ==
    /\ output' # output =>
          /\ SourcesConsumed
          /\ merged_devices # <<>>
          /\ pc' = "done"
          /\ output'.exists /\ ~output'.old
    /\ pc' = "failed" /\ pc # "failed" =>
          /\ SourcesConsumed
          /\ merged_devices = <<>>
          /\ output' = output

\* until the run is done the destination is as it was before the run; a
\* failed run has no device, and at the destination the old file or none
C13_Untouched ==
    /\ pc # "done" => output \in {NoFile, OldFile}
    /\ pc = "failed" => merged_devices = <<>>
    /\ pc = "done" => merged_devices # <<>>

(* C13: nothing is done to the destination path (no removal, no creation,  *)
(* no write) before every source is consumed and a device has been found;  *)
(* with no device after all sources the run fails, an existing destination *)
(* file is left as it was and no output is created.                        *)
C13_DestinationLast == [](C13_Untouched) /\ [][C13_DestinationStep]_vars

\* two sources were read, rows among them, no device was found: the run
\* failed and the file that was at the destination is still there
C13_Witness ==
    /\ pc = "failed"
    /\ Len(input_files) = 2
    /\ files_processed = 2
    /\ device_rows # EmptyBag
    /\ output = OldFile

\* the non-empty addresses of the parsed rows read so far
SightedMacs ==
    { get_device_key(r.device) :
        r \in { x \in BagToSet(device_rows) : Counted(x) } }

\* at most one record per address, none for the empty address
C14_OnePerAddress ==
    /\ \A i, j \in DOMAIN merged_devices :
          merged_devices[i].mac = merged_devices[j].mac => i = j
    /\ \A i \in DOMAIN merged_devices :
          /\ merged_devices[i].mac # ""
          /\ get_device_key(merged_devices[i].device) = merged_devices[i].mac
    /\ Macs(merged_devices) = SightedMacs

\* the devices table of the output: one row for each address sighted
C14_OneRowPerAddress ==
    pc = "done" =>
        /\ Len(output.devices) = Cardinality(SightedMacs)
        /\ { output.devices[i].devmac : i \in DOMAIN output.devices }
              = SightedMacs
        /\ \A i \in DOMAIN output.devices :
              output.devices[i].device
                  = Lookup(merged_devices, output.devices[i].devmac)

\* the first row of an address is stored as it is; a later one (whose merge
\* returns) replaces the stored record by the merge of the two, and no
\* other record changes
C14_Sighting ==
    \A row \in RunRows :
        ReadRow(row) /\ Counted(row) /\ ~Uncaught(merged_devices, row) =>
            LET mac == get_device_key(row.device)
            IN IF mac \notin Macs(merged_devices)
               THEN merged_devices' =
                      Append(merged_devices,
                             [mac |-> mac, device |-> row.device])
               ELSE /\ Len(merged_devices') = Len(merged_devices)
                    /\ \A i \in DOMAIN merged_devices :
                          merged_devices'[i] =
                            IF merged_devices[i].mac = mac
                            THEN [mac |-> mac,
                                  device |->
                                    MergeValue(merged_devices[i].device,
                                               row.device)]
                            ELSE merged_devices[i]

(* C14: the accumulated devices hold at most one record per hardware       *)
(* address at every point of the run; the first row of an address is       *)
(* stored as read, every later row of it replaces the stored record by the *)
(* merge result and adds none; the output of a successful run has exactly  *)
(* one devices row for each distinct non-empty address of the parsed rows  *)
(* read from the readable sources.                                         *)
C14_OneRecordPerAddress ==
    /\ [](C14_OnePerAddress /\ C14_OneRowPerAddress)
    /\ [][C14_Sighting]_vars

\* three rows, two of them of one address: two records, two output rows
C14_Witness ==
    /\ pc = "done"
    /\ BagCardinality(device_rows) = 3
    /\ SightedMacs = {"m1", "m2"}
    /\ total_raw = 3
    /\ Len(output.devices) = 2

---------------------------------------------------------------------------
\* the object at address a and its two nested blocks are as they were given
Unmodified(a) ==
    /\ heap[a] = given[a]
    /\ heap[BlockAddr(3, a, Signal)] = given[BlockAddr(3, a, Signal)]
    /\ heap[BlockAddr(3, a, Location)] = given[BlockAddr(3, a, Location)]

(* C15: merge_device_json(A, B) leaves B and its signal and location block *)
(* as they were, when it returns and also after the result A is merged     *)
(* with a further document C.                                              *)
C15_IncomingUnmodified ==
    /\ calls = <<<<1, 2>>>> => Unmodified(2)
    /\ calls = <<<<1, 2>>, <<1, 3>>>> => Unmodified(2) /\ Unmodified(3)

---------------------------------------------------------------------------
(* C1: for documents A, B, C of one address, merge(merge(A,B),C),           *)
(* merge(merge(A,C),B) and merge(A,merge(B,C)) agree on the three counters, *)
(* first_time, last_time, max_signal, min_signal and last_signal.          *)
C1_OrderIndependent ==
    calls = <<<<1, 2>>, <<1, 3>>>> =>
        LET ab_c == Value(heap, 1)
            ac_b == Value(merge_device_json(merge_device_json(given, 1, 3), 1, 2), 1)
            a_bc == Value(merge_device_json(merge_device_json(given, 2, 3), 1, 2), 1)
        IN /\ Governed(ab_c) = Governed(ac_b)
           /\ Governed(ab_c) = Governed(a_bc)

(* C5 as stated: with a signal block on both sides, the merged last_signal   *)
(* is incoming's when incoming.last_time >= existing.last_time and          *)
(* existing's otherwise.                                                   *)
C5_LastSignalFromLater ==
    Merged /\ Truthy(SignalOf(Existing)) /\ Truthy(SignalOf(Incoming)) =>
        SignalValue(Result, LastSignalKey) =
            IF Number(Incoming, LastTime) >= Number(Existing, LastTime)
            THEN SignalValue(Incoming, LastSignalKey)
            ELSE SignalValue(Existing, LastSignalKey)

(* C5 amended: with a signal block on both sides, the merged last_signal is *)
(* incoming's when incoming.last_time >= existing.last_time (the values    *)
(* the two documents had before the merge) and incoming's last_signal is   *)
(* not null, and existing's otherwise; the comparison the code makes after  *)
(* it has updated existing.last_time decides as the one on the values      *)
(* before the merge.                                                       *)
C5_LastSignalFromLaterIfPresent ==
    Merged /\ Truthy(SignalOf(Existing)) /\ Truthy(SignalOf(Incoming)) =>
        /\ SignalValue(Result, LastSignalKey) =
             IF /\ Number(Incoming, LastTime) >= Number(Existing, LastTime)
                /\ SignalValue(Incoming, LastSignalKey) # None
             THEN SignalValue(Incoming, LastSignalKey)
             ELSE SignalValue(Existing, LastSignalKey)
        /\ NewIsMostRecent(MergeLastTime(given, 1, 2), 1, 2)
             = (Number(Incoming, LastTime) >= Number(Existing, LastTime))

\* both sides have a last_signal, they differ, and the merge took incoming's
\* on a tie of the two last_time values
C5_Witness ==
    /\ Merged
    /\ SignalValue(Existing, LastSignalKey) # None
    /\ SignalValue(Incoming, LastSignalKey) # None
    /\ SignalValue(Existing, LastSignalKey) # SignalValue(Incoming, LastSignalKey)
    /\ Number(Incoming, LastTime) = Number(Existing, LastTime)
    /\ Number(Incoming, LastTime) > 0
    /\ SignalValue(Result, LastSignalKey) = SignalValue(Incoming, LastSignalKey)

(* C6: if incoming has no signal block the existing block is unchanged; if  *)
(* existing has none incoming's block is adopted whole; with a block on     *)
(* both sides the merged max_signal is the maximum and the merged           *)
(* min_signal the minimum of the two sides, an absent value being ignored. *)
C6_SignalExtremes ==
    Merged =>
        IF ~Truthy(SignalOf(Incoming))
        THEN /\ (Signal \in DOMAIN Result) = (Signal \in DOMAIN Existing)
             /\ SignalOf(Result) = SignalOf(Existing)
        ELSE IF ~Truthy(SignalOf(Existing))
        THEN /\ Signal \in DOMAIN Result
             /\ Result[Signal] = Incoming[Signal]
        ELSE /\ SignalValue(Result, MaxSignalKey) =
                  OptMax(SignalValue(Existing, MaxSignalKey),
                         SignalValue(Incoming, MaxSignalKey))
             /\ SignalValue(Result, MinSignalKey) =
                  OptMin(SignalValue(Existing, MinSignalKey),
                         SignalValue(Incoming, MinSignalKey))

\* a block on both sides: incoming has the better max, existing the worse min
C6_Witness ==
    /\ Merged
    /\ SignalValue(Existing, MaxSignalKey) = {0 - 2}
    /\ SignalValue(Incoming, MaxSignalKey) = {0 - 1}
    /\ SignalValue(Existing, MinSignalKey) = {0 - 2}
    /\ SignalValue(Incoming, MinSignalKey) = {0 - 1}
    /\ SignalValue(Result, MaxSignalKey) = {0 - 1}
    /\ SignalValue(Result, MinSignalKey) = {0 - 2}
====
